---- MODULE Spec2Model ----
(***************************************************************************)
(* The task list of src/todo_app_frontend/src/App.js: the React state of   *)
(* the App component (tasks, filter, query, draft, editingId,              *)
(* editingTitle), the handlers that change it, the effect that persists    *)
(* the tasks under the localStorage key 'tasks', and the startup read.     *)
(*                                                                         *)
(* One action is one user intent: the handler it runs, the re-render that  *)
(* follows the state updates, and the persistence effect of that render    *)
(* (React flushes the updates and effects of a discrete event before it    *)
(* dispatches the next one, so every handler reads the current state).     *)
(*                                                                         *)
(* Text (ids, titles, typed input) is a sequence of one-character strings. *)
(***************************************************************************)
EXTENDS Integers, Sequences, FiniteSets, TLC

VARIABLES tasks, filter, query, draft, editingId, editingTitle,
          storage, fault, lastIntent

vars == <<tasks, filter, query, draft, editingId, editingTitle,
          storage, fault, lastIntent>>

\* ---------------------------------------------------------------- bounds
\* The collection holds at most MaxTasks tasks (addTask is cut off there).
MaxTasks == 2
\* Date.now() returns a value of 0..MaxTime.
MaxTime == 1

\* ------------------------------------------------------------ text helpers
\* JavaScript's null, as the value of editingId (no text is this value: a
\* text is made of one-character strings).
Null == <<"null">>

\* String.prototype.trim: whitespace is dropped at both ends.
RECURSIVE TrimStart(_)
TrimStart(s) ==
  IF s = <<>> \/ Head(s) # " " THEN s ELSE TrimStart(Tail(s))

RECURSIVE TrimEnd(_)
TrimEnd(s) ==
  IF s = <<>> \/ s[Len(s)] # " " THEN s ELSE TrimEnd(SubSeq(s, 1, Len(s) - 1))

\* Mutant of Trim: whitespace is dropped at the start only (trimStart).
TrimStartOnly(s) == TrimStart(s)

Trim(s) == TrimEnd(TrimStart(s))

\* String.prototype.toLowerCase, on the letters the model types.
LowerChar(c) ==
  CASE c = "A" -> "a"
    [] c = "B" -> "b"
    [] OTHER -> c

ToLowerCase(s) == [i \in DOMAIN s |-> LowerChar(s[i])]

\* String.prototype.includes: q occurs in s as a contiguous substring.
Includes(s, q) ==
  \E i \in 1..(Len(s) - Len(q) + 1) : SubSeq(s, i, i + Len(q) - 1) = q

\* String.prototype.slice(from, to) with 0-based, non-negative indices.
Slice(s, from, to) ==
  SubSeq(s, from + 1, IF to < Len(s) THEN to ELSE Len(s))

\* JavaScript's !v for a value that is null or a string.
Falsy(v) == v = Null \/ v = <<>>

\* ------------------------------------------------------------- input sets
\* What Math.random().toString(36) can return: "0" for the draw 0, and
\* "0.<digits>" otherwise.
RandomDraws == { <<"0">>, <<"0", ".", "a">>, <<"0", ".", "b">> }

\* const uid = () => Math.random().toString(36).slice(2, 10)
uid(r) == Slice(r, 2, 10)

Ids == { uid(r) : r \in RandomDraws }

Times == 0..MaxTime

\* What the user types into the new-task input.
Drafts == { <<" ">>, <<" ", "a", " ">> }

\* What the user types into the inline edit input.
Edits == { <<" ">>, <<" ", "B">> }

\* What the user types into the search input.
Queries == { <<>>, <<" ", "b">> }

Filters == { "all", "active", "completed" }

\* ------------------------------------------------------------ persistence
\* The value under the localStorage key 'tasks': no value, the empty string,
\* text JSON.parse rejects, the JSON texts "null" and "{}", or the JSON text
\* of an array, one row per element holding its fields in the order written.
AbsentKey == [kind |-> "absent"]
EmptyString == [kind |-> "empty"]
Garbage == [kind |-> "garbage"]
JsonNull == [kind |-> "null"]
JsonObject == [kind |-> "object"]
JsonArray(rows) == [kind |-> "array", rows |-> rows]

\* Mutant of JSONstringify: the completed flag is written as false.
JSONstringifyDropsCompleted(ts) ==
  JsonArray([i \in DOMAIN ts |->
               <<ts[i].id, ts[i].title, FALSE,
                 ts[i].createdAt, ts[i].updatedAt>>])

\* JSON.stringify(tasks) of an array of Task objects.
JSONstringify(ts) ==
  JsonArray([i \in DOMAIN ts |->
               <<ts[i].id, ts[i].title, ts[i].completed,
                 ts[i].createdAt, ts[i].updatedAt>>])

\* JSON.parse(saved) for a non-empty text: the value, or a SyntaxError.
JSONparse(saved) ==
  CASE saved.kind = "array" ->
         [js |-> "array",
          items |-> [i \in DOMAIN saved.rows |->
                       [id |-> saved.rows[i][1], title |-> saved.rows[i][2],
                        completed |-> saved.rows[i][3],
                        createdAt |-> saved.rows[i][4],
                        updatedAt |-> saved.rows[i][5]]]]
    [] saved.kind = "null" -> [js |-> "null"]
    [] saved.kind = "object" -> [js |-> "object"]
    [] OTHER -> [js |-> "throw"]

\* The initializer of the tasks state:
\*   try { saved = getItem('tasks'); return saved ? JSON.parse(saved) : [] }
\*   catch { return [] }
Initializer(content) ==
  IF content.kind \in {"absent", "empty"}
    THEN [js |-> "array", items |-> <<>>]
    ELSE LET v == JSONparse(content)
         IN IF v.js = "throw" THEN [js |-> "array", items |-> <<>>] ELSE v

\* A task as addTask builds it.
NewTask(id, title, now) ==
  [id |-> id, title |-> title, completed |-> FALSE,
   createdAt |-> now, updatedAt |-> now]

\* What the 'tasks' key may hold when the application starts.
StoredContents ==
  { AbsentKey, EmptyString, Garbage, JsonNull, JsonObject,
    JSONstringify(<<>>),
    JSONstringify(<<NewTask(<<"a">>, <<"a">>, 0)>>),
    JSONstringify(<<[NewTask(<<"b">>, <<"B">>, 0) EXCEPT !.completed = TRUE],
                    NewTask(<<"a">>, <<"a">>, 0)>>) }

\* ---------------------------------------------------------------- views
\* The filtered memo: narrow by filter, then by the trimmed, lower-cased query.
PassesFilter(t, f) ==
  IF f = "active" THEN ~t.completed
  ELSE IF f = "completed" THEN t.completed
  ELSE TRUE

\* Mutant of PassesQuery: the title is not lower-cased.
PassesQueryCaseSensitive(t, q) ==
  IF q # <<>> THEN Includes(t.title, q) ELSE TRUE

PassesQuery(t, q) ==
  IF q # <<>> THEN Includes(ToLowerCase(t.title), q) ELSE TRUE

filtered ==
  LET q == ToLowerCase(Trim(query))
      byFilter == SelectSeq(tasks, LAMBDA t : PassesFilter(t, filter))
  IN SelectSeq(byFilter, LAMBDA t : PassesQuery(t, q))

remaining == Len(SelectSeq(tasks, LAMBDA t : ~t.completed))

\* -------------------------------------------------------------- updaters
\* Mutant of AddUpdater: the new task is appended ([...prev, newTask]).
AddUpdaterAppends(prev, newTask) == prev \o <<newTask>>

\* setTasks((prev) => [newTask, ...prev])
AddUpdater(prev, newTask) == <<newTask>> \o prev

\* Mutant of ToggleUpdater: the flag is set, not flipped (completed: true).
ToggleUpdaterCompletes(prev, id, now) ==
  [i \in DOMAIN prev |->
     IF prev[i].id = id
       THEN [prev[i] EXCEPT !.completed = TRUE, !.updatedAt = now]
       ELSE prev[i]]

\* Mutant of ToggleUpdater: the comparison inverted (t.id !== id).
ToggleUpdaterInverted(prev, id, now) ==
  [i \in DOMAIN prev |->
     IF prev[i].id # id
       THEN [prev[i] EXCEPT !.completed = ~@, !.updatedAt = now]
       ELSE prev[i]]

\* setTasks((prev) => prev.map((t) => t.id === id
\*            ? { ...t, completed: !t.completed, updatedAt: Date.now() } : t))
ToggleUpdater(prev, id, now) ==
  [i \in DOMAIN prev |->
     IF prev[i].id = id
       THEN [prev[i] EXCEPT !.completed = ~@, !.updatedAt = now]
       ELSE prev[i]]

\* setTasks((prev) => prev.filter((t) => t.id !== id))
RemoveUpdater(prev, id) == SelectSeq(prev, LAMBDA t : t.id # id)

\* setTasks((prev) => prev.map((t) => t.id === editingId
\*            ? { ...t, title, updatedAt: Date.now() } : t))
EditUpdater(prev, id, title, now) ==
  [i \in DOMAIN prev |->
     IF prev[i].id = id
       THEN [prev[i] EXCEPT !.title = title, !.updatedAt = now]
       ELSE prev[i]]

\* Mutant of ClearUpdater: the test inverted (filter((t) => t.completed)).
ClearUpdaterKeepsCompleted(prev) == SelectSeq(prev, LAMBDA t : t.completed)

\* setTasks((prev) => prev.filter((t) => !t.completed))
ClearUpdater(prev) == SelectSeq(prev, LAMBDA t : ~t.completed)

\* Whether some task of ts has this id.
Has(ts, id) == \E i \in DOMAIN ts : ts[i].id = id

\* An intent is dispatched only to a mounted component.
Mounted == fault = "none"

\* How the id an intent names relates to the edit session its handler reads.
Session(id) ==
  IF editingId = Null THEN "idle"
  ELSE IF editingId = id THEN "same"
  ELSE "other"

\* Mutant of Rerender: the persistence effect is missing.
RerenderWithoutEffect(ts, d, eid, et, writeOk) ==
  /\ tasks' = ts
  /\ draft' = d
  /\ editingId' = eid
  /\ editingTitle' = et
  /\ UNCHANGED <<storage, fault, filter, query>>

\* The re-render after a handler that set a new tasks array ts (with the
\* draft and edit session it set), and the effect of that render:
\*   localStorage.setItem('tasks', JSON.stringify(tasks))
\* setItem stores the text, or throws (quota exceeded): the throw is not
\* caught in the effect, and React unmounts the component tree (the state
\* variables then show the render the effect belonged to, and fault tells
\* that the tree is gone).
Rerender(ts, d, eid, et, writeOk) ==
  /\ tasks' = ts
  /\ draft' = d
  /\ editingId' = eid
  /\ editingTitle' = et
  /\ storage' = (IF writeOk THEN JSONstringify(ts) ELSE storage)
  /\ fault' = (IF writeOk THEN "none" ELSE "effect")
  /\ UNCHANGED <<filter, query>>

\* ------------------------------------------------------------------ Init
\* The state after the first render and its effects.  The tasks state is
\* what the initializer returns for the stored content.  An array renders,
\* and the persistence effect writes it back; null or an object make the
\* first render throw at tasks.filter (the component never mounts).
\* lastIntent records the intent handled last: its handler, and what the
\* handler found (the branch it took, whether its id matched a task).
InitFrom(contents) ==
  \E content \in contents, writeOk \in BOOLEAN :
    LET v == Initializer(content)
    IN /\ filter = "all"
       /\ query = <<>>
       /\ draft = <<>>
       /\ editingId = Null
       /\ editingTitle = <<>>
       /\ lastIntent = [op |-> "mount", arg |-> <<content.kind>>]
       /\ IF v.js = "array"
            THEN /\ tasks = v.items
                 /\ storage = (IF writeOk THEN JSONstringify(v.items) ELSE content)
                 /\ fault = (IF writeOk THEN "none" ELSE "effect")
            ELSE /\ writeOk
                 /\ tasks = <<>>
                 /\ storage = content
                 /\ fault = "render"

Init == InitFrom(StoredContents)

\* The first run: nothing is stored under the key.
InitFresh == InitFrom({AbsentKey})

\* --------------------------------------------------------------- actions
\* onChange of the new-task input: setDraft(e.target.value)
SetDraft(text) ==
  /\ Mounted
  /\ draft' = text
  /\ lastIntent' = [op |-> "setDraft", arg |-> <<>>]
  /\ UNCHANGED <<tasks, filter, query, editingId, editingTitle, storage, fault>>

\* onChange of the search input: setQuery(e.target.value)
SetQuery(text) ==
  /\ Mounted
  /\ query' = text
  /\ lastIntent' = [op |-> "setQuery", arg |-> <<>>]
  /\ UNCHANGED <<tasks, filter, draft, editingId, editingTitle, storage, fault>>

\* onClick of a filter tab: setFilter('all' | 'active' | 'completed')
SetFilter(f) ==
  /\ Mounted
  /\ filter' = f
  /\ lastIntent' = [op |-> "setFilter", arg |-> <<>>]
  /\ UNCHANGED <<tasks, query, draft, editingId, editingTitle, storage, fault>>

\* Mutant of AddTask: the blank check (if (!trimmed) return) is missing.
AddTaskUnchecked(r, now, writeOk) ==
  /\ Mounted
  /\ Len(tasks) < MaxTasks
  /\ lastIntent' = [op |-> "addTask",
                    arg |-> <<Trim(draft) # <<>>, Has(tasks, uid(r))>>]
  /\ Rerender(AddUpdater(tasks, NewTask(uid(r), Trim(draft), now)),
              <<>>, editingId, editingTitle, writeOk)

\* onSubmit of the composer form: addTask(draft)
AddTask(r, now, writeOk) ==
  LET trimmed == Trim(draft)
  IN /\ Mounted
     /\ lastIntent' = [op |-> "addTask",
                       arg |-> <<trimmed # <<>>, Has(tasks, uid(r))>>]
     /\ IF trimmed = <<>>
          THEN /\ writeOk
               /\ UNCHANGED <<tasks, filter, query, draft, editingId,
                              editingTitle, storage, fault>>
          ELSE /\ Len(tasks) < MaxTasks
               /\ Rerender(AddUpdater(tasks, NewTask(uid(r), trimmed, now)),
                           <<>>, editingId, editingTitle, writeOk)

\* onChange of a row's checkbox: toggleTask(task.id)
ToggleTask(id, now, writeOk) ==
  /\ Mounted
  /\ lastIntent' = [op |-> "toggleTask", arg |-> <<Has(tasks, id)>>]
  /\ Rerender(ToggleUpdater(tasks, id, now),
              draft, editingId, editingTitle, writeOk)

\* Mutant of removeTask: the edit session is not cleared (lines 88-91 lost).
removeTaskKeepsSession(id, writeOk) ==
  Rerender(RemoveUpdater(tasks, id), draft, editingId, editingTitle, writeOk)

\* removeTask(id): the body shared by the Delete button and commitEdit.
removeTask(id, writeOk) ==
  IF editingId = id
    THEN Rerender(RemoveUpdater(tasks, id), draft, Null, <<>>, writeOk)
    ELSE Rerender(RemoveUpdater(tasks, id),
                  draft, editingId, editingTitle, writeOk)

\* onClick of a row's Delete button: removeTask(task.id)
RemoveTask(id, writeOk) ==
  /\ Mounted
  /\ lastIntent' = [op |-> "removeTask",
                    arg |-> <<Has(tasks, id), Session(id)>>]
  /\ removeTask(id, writeOk)

\* Mutant of BeginEdit: the edit in progress is committed before the new
\* one starts.
BeginEditCommitsFirst(i) ==
  /\ Mounted
  /\ i \in DOMAIN filtered
  /\ lastIntent' = [op |-> "beginEdit", arg |-> <<Session(filtered[i].id)>>]
  /\ Rerender(IF Falsy(editingId) \/ Trim(editingTitle) = <<>>
                THEN tasks
                ELSE EditUpdater(tasks, editingId, Trim(editingTitle), 0),
              draft, filtered[i].id, filtered[i].title, TRUE)

\* onDoubleClick of a row's title, onClick of its Edit button: beginEdit(task)
\* with the task of a rendered row.
BeginEdit(i) ==
  /\ Mounted
  /\ i \in DOMAIN filtered
  /\ editingId' = filtered[i].id
  /\ editingTitle' = filtered[i].title
  /\ lastIntent' = [op |-> "beginEdit", arg |-> <<Session(filtered[i].id)>>]
  /\ UNCHANGED <<tasks, filter, query, draft, storage, fault>>

\* Whether some rendered row shows the inline edit input.
EditInputRendered ==
  \E i \in DOMAIN filtered : filtered[i].id = editingId

\* onChange of the inline edit input: setEditingTitle(e.target.value)
SetEditingTitle(text) ==
  /\ Mounted
  /\ EditInputRendered
  /\ editingTitle' = text
  /\ lastIntent' = [op |-> "setEditingTitle", arg |-> <<>>]
  /\ UNCHANGED <<tasks, filter, query, draft, editingId, storage, fault>>

\* commitEdit(), reached by the Save button ("save"), by the edit input
\* losing focus ("blur") and by Enter in it ("enter").
CommitEdit(via, now, writeOk) ==
  LET title == Trim(editingTitle)
  IN /\ Mounted
     /\ lastIntent' = [op |-> "commitEdit",
                       arg |-> <<via,
                                 IF Falsy(editingId) THEN "return"
                                 ELSE IF title = <<>> THEN "remove"
                                 ELSE "retitle",
                                 Has(tasks, editingId)>>]
     /\ IF Falsy(editingId)
          THEN /\ writeOk
               /\ UNCHANGED <<tasks, filter, query, draft, editingId,
                              editingTitle, storage, fault>>
          ELSE IF title = <<>>
            THEN removeTask(editingId, writeOk)
            ELSE Rerender(EditUpdater(tasks, editingId, title, now),
                          draft, Null, <<>>, writeOk)

\* Mutant of CancelEdit: Escape empties the buffer and leaves editingId
\* (setEditingId(null) lost).
CancelEditKeepsId ==
  /\ Mounted
  /\ EditInputRendered
  /\ editingTitle' = <<>>
  /\ lastIntent' = [op |-> "cancelEdit", arg |-> <<editingTitle>>]
  /\ UNCHANGED <<tasks, filter, query, draft, editingId, storage, fault>>

\* Mutant of CancelEdit: Escape commits the typed text as Enter does.
CancelEditCommits ==
  /\ Mounted
  /\ EditInputRendered
  /\ lastIntent' = [op |-> "cancelEdit", arg |-> <<editingTitle>>]
  /\ Rerender(EditUpdater(tasks, editingId, Trim(editingTitle), 0),
              draft, Null, <<>>, TRUE)

\* Escape in the inline edit input: setEditingId(null); setEditingTitle('')
CancelEdit ==
  /\ Mounted
  /\ EditInputRendered
  /\ editingId' = Null
  /\ editingTitle' = <<>>
  /\ lastIntent' = [op |-> "cancelEdit", arg |-> <<editingTitle>>]
  /\ UNCHANGED <<tasks, filter, query, draft, storage, fault>>

\* onClick of Clear Completed: clearCompleted()
ClearCompleted(writeOk) ==
  /\ Mounted
  /\ lastIntent' = [op |-> "clearCompleted",
                    arg |-> <<\E i \in DOMAIN tasks : tasks[i].completed>>]
  /\ Rerender(ClearUpdater(tasks), draft, editingId, editingTitle, writeOk)

\* The page is reloaded: the component is constructed again, its tasks state
\* from what the 'tasks' key holds now and the rest of its state from the
\* defaults, and the persistence effect of the first render runs.
Restart(writeOk) ==
  LET v == Initializer(storage)
  IN /\ filter' = "all"
     /\ query' = <<>>
     /\ draft' = <<>>
     /\ editingId' = Null
     /\ editingTitle' = <<>>
     /\ lastIntent' = [op |-> "restart", arg |-> <<storage.kind>>]
     /\ IF v.js = "array"
          THEN /\ tasks' = v.items
               /\ storage' = (IF writeOk THEN JSONstringify(v.items) ELSE storage)
               /\ fault' = (IF writeOk THEN "none" ELSE "effect")
          ELSE /\ writeOk
               /\ tasks' = <<>>
               /\ storage' = storage
               /\ fault' = "render"

\* ------------------------------------------------------- specifications
\* Every intent of the interface.
Next ==
  \/ \E text \in Drafts : SetDraft(text)
  \/ \E text \in Queries : SetQuery(text)
  \/ \E f \in Filters : SetFilter(f)
  \/ \E r \in RandomDraws, now \in Times, writeOk \in BOOLEAN :
       AddTask(r, now, writeOk)
  \/ \E id \in Ids, now \in Times, writeOk \in BOOLEAN :
       ToggleTask(id, now, writeOk)
  \/ \E id \in Ids, writeOk \in BOOLEAN : RemoveTask(id, writeOk)
  \/ \E i \in 1..MaxTasks : BeginEdit(i)
  \/ \E text \in Edits : SetEditingTitle(text)
  \/ \E via \in {"save", "blur", "enter"}, now \in Times, writeOk \in BOOLEAN :
       CommitEdit(via, now, writeOk)
  \/ CancelEdit
  \/ \E writeOk \in BOOLEAN : ClearCompleted(writeOk)

Spec == Init /\ [][Next]_vars

\* The intents that reach the task collection and the edit session, with
\* Date.now() returning a value of clock; the filter tab and the search text
\* stay as mounted ("all", no query).
StoreStep(clock) ==
  \/ \E text \in Drafts : SetDraft(text)
  \/ \E r \in RandomDraws, now \in clock, writeOk \in BOOLEAN :
       AddTask(r, now, writeOk)
  \/ \E id \in Ids, now \in clock, writeOk \in BOOLEAN :
       ToggleTask(id, now, writeOk)
  \/ \E id \in Ids, writeOk \in BOOLEAN : RemoveTask(id, writeOk)
  \/ \E i \in 1..MaxTasks : BeginEdit(i)
  \/ \E text \in Edits : SetEditingTitle(text)
  \/ \E via \in {"save", "blur", "enter"}, now \in clock, writeOk \in BOOLEAN :
       CommitEdit(via, now, writeOk)
  \/ CancelEdit
  \/ \E writeOk \in BOOLEAN : ClearCompleted(writeOk)

NextStore == StoreStep(Times)

SpecStore == Init /\ [][NextStore]_vars

\* The same intents within one tick of the clock: every Date.now() of the
\* session returns the time the stored tasks were written at.
NextTick == StoreStep({0})

SpecTick == Init /\ [][NextTick]_vars

\* One tick of a first run (an empty collection).
SpecFresh == InitFresh /\ [][NextTick]_vars

\* The intents that change what the list shows: the filter tabs and the
\* search input, with the intents that build the collection and open or
\* leave an edit on a shown row, within one tick of the clock.
NextView ==
  \/ \E text \in Drafts : SetDraft(text)
  \/ \E text \in Queries : SetQuery(text)
  \/ \E f \in Filters : SetFilter(f)
  \/ \E r \in RandomDraws, writeOk \in BOOLEAN : AddTask(r, 0, writeOk)
  \/ \E id \in Ids, writeOk \in BOOLEAN : ToggleTask(id, 0, writeOk)
  \/ \E id \in Ids, writeOk \in BOOLEAN : RemoveTask(id, writeOk)
  \/ \E i \in 1..MaxTasks : BeginEdit(i)
  \/ CancelEdit
  \/ \E writeOk \in BOOLEAN : ClearCompleted(writeOk)

SpecView == Init /\ [][NextView]_vars

\* Sessions one after the other, each within one tick of the clock.
NextRestart ==
  \/ NextTick
  \/ \E writeOk \in BOOLEAN : Restart(writeOk)

SpecRestart == Init /\ [][NextRestart]_vars

\* ================================================================ claims
\* The collection without the tasks whose id is id, the others as they were
\* and in their order.
RECURSIVE Without(_, _)
Without(ts, id) ==
  IF ts = <<>> THEN <<>>
  ELSE IF Head(ts).id = id THEN Without(Tail(ts), id)
  ELSE <<Head(ts)>> \o Without(Tail(ts), id)

\* The step handled the intent op.
Handled(op) == lastIntent'.op = op

\* C1: starting from an empty collection, any two distinct tasks of the
\* collection have different ids (every addTask yields an id no task of the
\* collection has).  Stated as the claim states it; uid() draws the id at
\* random, so a draw can repeat.
C1_DistinctIds ==
  \A i, j \in DOMAIN tasks : i # j => tasks[i].id # tasks[j].id

\* C2: in Editing(x) with x in the collection, commitEdit with a blank
\* editingTitle yields the collection removeTask(x) yields (x gone, the
\* others unchanged, in order) and ends Idle with editingTitle empty.
\* Stated as the claim states it, for every id uid() can return.
C2_CommitEmptyDeletes ==
  [][ ( /\ Handled("commitEdit")
        /\ editingId # Null
        /\ Has(tasks, editingId)
        /\ Trim(editingTitle) = <<>> )
      => ( /\ tasks' = Without(tasks, editingId)
           /\ tasks' = RemoveUpdater(tasks, editingId)
           /\ editingId' = Null
           /\ editingTitle' = <<>> ) ]_vars

\* C2, the part the code keeps: the same statement for the ids that are
\* not the empty string.
C2_CommitEmptyDeletesNonEmptyId ==
  [][ ( /\ Handled("commitEdit")
        /\ ~Falsy(editingId)
        /\ Has(tasks, editingId)
        /\ Trim(editingTitle) = <<>> )
      => ( /\ tasks' = Without(tasks, editingId)
           /\ tasks' = RemoveUpdater(tasks, editingId)
           /\ editingId' = Null
           /\ editingTitle' = <<>> ) ]_vars

\* The task of the step's collection at i is the task before it with the
\* title newTitle, its id, completed flag and createdAt as they were.
Retitled(i, newTitle) ==
  /\ tasks'[i].title = newTitle
  /\ tasks'[i].id = tasks[i].id
  /\ tasks'[i].completed = tasks[i].completed
  /\ tasks'[i].createdAt = tasks[i].createdAt

\* C3: in Editing(id) with id in the collection and a non-blank
\* editingTitle, every commit intent (Save, blur, Enter) ends Idle
\* (editingId none, editingTitle empty) with the task's title the trimmed
\* editingTitle and its id, completed flag and createdAt unchanged.
\* Stated as the claim states it, for every id uid() can return.
C3_CommitRetitles ==
  [][ ( /\ Handled("commitEdit")
        /\ lastIntent'.arg[1] \in {"save", "blur", "enter"}
        /\ editingId # Null
        /\ Has(tasks, editingId)
        /\ Trim(editingTitle) # <<>> )
      => ( /\ editingId' = Null
           /\ editingTitle' = <<>>
           /\ DOMAIN tasks' = DOMAIN tasks
           /\ \A i \in DOMAIN tasks :
                tasks[i].id = editingId => Retitled(i, Trim(editingTitle)) )
    ]_vars

\* C3, the part the code keeps: the same statement for the ids that are
\* not the empty string.
C3_CommitRetitlesNonEmptyId ==
  [][ ( /\ Handled("commitEdit")
        /\ lastIntent'.arg[1] \in {"save", "blur", "enter"}
        /\ ~Falsy(editingId)
        /\ Has(tasks, editingId)
        /\ Trim(editingTitle) # <<>> )
      => ( /\ editingId' = Null
           /\ editingTitle' = <<>>
           /\ DOMAIN tasks' = DOMAIN tasks
           /\ \A i \in DOMAIN tasks :
                tasks[i].id = editingId => Retitled(i, Trim(editingTitle)) )
    ]_vars

\* C4: in Editing(id), Escape ends Idle with editingTitle discarded and the
\* collection exactly as before (so the edited task keeps its title,
\* completed flag and timestamps), whatever had been typed; nothing is
\* written to storage either.
C4_CancelKeepsCollection ==
  [][ Handled("cancelEdit")
      => ( /\ editingId # Null
           /\ editingId' = Null
           /\ editingTitle' = <<>>
           /\ tasks' = tasks
           /\ storage' = storage ) ]_vars

\* C4 witness: Escape has discarded a typed text that differs from the
\* title the edited task keeps.
C4_Witness ==
  /\ lastIntent.op = "cancelEdit"
  /\ lastIntent.arg[1] = <<" ", "B">>
  /\ editingId = Null
  /\ editingTitle = <<>>
  /\ Len(tasks) = 1
  /\ tasks[1].title = <<"a">>

\* C5: in Editing(id), removeTask(id) removes the task and ends Idle with
\* editingTitle empty, and performs no commit: what remains of the
\* collection is what it was (the buffered text is written to no task).  A
\* removeTask of another id leaves editingId and editingTitle as they were.
C5_RemoveWhileEditing ==
  [][ \A id \in Ids :
        ( /\ editingId # Null
          /\ \E writeOk \in BOOLEAN : RemoveTask(id, writeOk) )
        => ( /\ tasks' = Without(tasks, id)
             /\ IF editingId = id
                  THEN editingId' = Null /\ editingTitle' = <<>>
                  ELSE editingId' = editingId /\ editingTitle' = editingTitle )
    ]_vars

\* C5 witness: the task under edit was removed while a typed text was
\* buffered, and the other task of the collection is as it was.
C5_Witness ==
  /\ lastIntent = [op |-> "removeTask", arg |-> <<TRUE, "same">>]
  /\ editingId = Null
  /\ editingTitle = <<>>
  /\ Len(tasks) = 1
  /\ tasks[1].title = <<"a">>
  /\ tasks[1].id = <<"b">>

C7_StorageCurrent ==
  Mounted =>
    /\ storage.kind = "array"
    /\ DOMAIN storage.rows = DOMAIN tasks
    /\ \A i \in DOMAIN tasks :
         storage.rows[i] = <<tasks[i].id, tasks[i].title, tasks[i].completed,
                             tasks[i].createdAt, tasks[i].updatedAt>>

\* C7 witness: a toggle changed a task of a two-task collection and the
\* stored snapshot shows the new flag.
C7_Witness ==
  /\ Mounted
  /\ lastIntent = [op |-> "toggleTask", arg |-> <<TRUE>>]
  /\ Len(tasks) = 2
  /\ tasks[2].completed
  /\ ~tasks[1].completed
  /\ storage.rows[2] = <<<<"a">>, <<"a">>, TRUE, 0, 0>>

\* C8: a failing write of the collection is swallowed: after every intent
\* the controller is still up and takes the next intent.  Stated as the
\* claim states it; the effect has no try/catch.
C8_WriteFailureSwallowed ==
  lastIntent.op # "mount" => Mounted

\* C9: at startup, for every content of the 'tasks' key that is not a
\* serialized task collection (absent, empty, unparsable, or JSON that is
\* not an array), the collection starts empty and the first render does not
\* fail.  Stated as the claim states it.
C9_InvalidContentStartsEmpty ==
  (lastIntent.op = "mount" /\ lastIntent.arg[1] # "array")
    => (tasks = <<>> /\ fault # "render")

\* C9, the part the code keeps: an absent key, the empty string and text
\* JSON.parse rejects start an empty collection that renders.
C9_UnparsableStartsEmpty ==
  (lastIntent.op = "mount" /\ lastIntent.arg[1] \in {"absent", "empty", "garbage"})
    => (tasks = <<>> /\ fault # "render")

\* C10: for an id no task has, toggleTask(id), removeTask(id) and commitEdit
\* with editingId = id and a non-blank editingTitle leave the collection as
\* it was: same tasks, same fields, same order.
C10_StaleIdTolerated ==
  [][ /\ (Handled("toggleTask") /\ ~lastIntent'.arg[1]) => tasks' = tasks
      /\ (Handled("removeTask") /\ ~lastIntent'.arg[1]) => tasks' = tasks
      /\ ( /\ Handled("commitEdit")
           /\ editingId # Null
           /\ ~Has(tasks, editingId)
           /\ Trim(editingTitle) # <<>> ) => tasks' = tasks ]_vars

\* C10 witness: commitEdit ran with a non-blank text for an id that no task
\* of a non-empty collection has.
C10_Witness ==
  /\ lastIntent.op = "commitEdit"
  /\ lastIntent.arg[2] = "retitle"
  /\ ~lastIntent.arg[3]
  /\ tasks # <<>>
  /\ editingId = Null

\* A text that is not empty and has no whitespace at either end.
NoEdgeSpace(s) == s # <<>> /\ Head(s) # " " /\ s[Len(s)] # " "

Blank(s) == \A k \in DOMAIN s : s[k] = " "

\* C12: addTask with a draft that is empty after trimming is a no-op: the
\* collection is as it was (same tasks, same field values, same order), no
\* task is created, and nothing is written to storage.
C12_BlankAddIsNoOp ==
  [][ (Handled("addTask") /\ Blank(draft))
      => (tasks' = tasks /\ storage' = storage /\ Mounted') ]_vars

\* C12 witness: the form was submitted with the draft " " on a collection
\* of two tasks.
C12_Witness ==
  /\ lastIntent.op = "addTask"
  /\ ~lastIntent.arg[1]
  /\ draft = <<" ">>
  /\ Len(tasks) = 2

\* a is b with some elements left out, the others in b's order.
RECURSIVE IsSubseq(_, _)
IsSubseq(a, b) ==
  IF a = <<>> THEN TRUE
  ELSE IF b = <<>> THEN FALSE
  ELSE IF Head(a) = Head(b) THEN IsSubseq(Tail(a), Tail(b))
  ELSE IsSubseq(a, Tail(b))

\* What identifies the tasks of a collection, in its order: the fields no
\* operation rewrites.
Keys(ts) == [i \in DOMAIN ts |-> <<ts[i].id, ts[i].createdAt>>]

\* t is the text s without the whitespace at its two ends, and is not
\* empty.
TrimmedFrom(t, s) ==
  /\ NoEdgeSpace(t)
  /\ \E i, j \in 0..Len(s) :
       /\ i + j <= Len(s)
       /\ Blank(SubSeq(s, 1, i))
       /\ Blank(SubSeq(s, Len(s) - j + 1, Len(s)))
       /\ t = SubSeq(s, i + 1, Len(s) - j)

\* C13: the collection keeps insertion order, most recent first.  An
\* addTask with a non-blank draft yields the new task (the trimmed draft as
\* title, completed false, createdAt = updatedAt) followed by the previous
\* collection as it was; every other intent leaves the tasks that remain in
\* the order they had.  The prepend of the task the step added is checked
\* for every reading of the clock as well.
C13_InsertionOrder ==
  [][ /\ (Handled("addTask") /\ ~Blank(draft))
         => ( /\ tasks' # <<>>
              /\ Tail(tasks') = tasks
              /\ TrimmedFrom(Head(tasks').title, draft)
              /\ ~Head(tasks').completed
              /\ Head(tasks').createdAt = Head(tasks').updatedAt
              /\ \A now \in Times :
                   LET new == NewTask(Head(tasks').id, Head(tasks').title, now)
                       ts == AddUpdater(tasks, new)
                   IN /\ Tail(ts) = tasks
                      /\ Head(ts).createdAt = now
                      /\ Head(ts).updatedAt = now
                      /\ ~Head(ts).completed )
      /\ ~Handled("addTask")
         => (tasks' = tasks \/ IsSubseq(Keys(tasks'), Keys(tasks))) ]_vars

\* C13 witness: a task was added in front of a task loaded from storage.
C13_Witness ==
  /\ lastIntent.op = "addTask"
  /\ lastIntent.arg[1]
  /\ Len(tasks) = 2
  /\ tasks[1].id = <<"a">>
  /\ tasks[1].title = <<"a">>
  /\ tasks[2].id = <<"b">>
  /\ tasks[2].title = <<"B">>
  /\ tasks[2].completed

\* The collection after is the collection before with the completed flag
\* of the tasks whose id is id set to what flag gives for the old one; their
\* id, title and createdAt, and every other task, are as they were.
ToggledBy(before, after, id, flag(_)) ==
  /\ DOMAIN after = DOMAIN before
  /\ \A i \in DOMAIN before :
       IF before[i].id = id
         THEN /\ after[i].completed = flag(before[i].completed)
              /\ after[i].id = before[i].id
              /\ after[i].title = before[i].title
              /\ after[i].createdAt = before[i].createdAt
         ELSE after[i] = before[i]

\* C14: a toggleTask(id) step flips the completed flag of exactly the task
\* with that id (its id, title and createdAt and every other task stay as
\* they were), and toggleTask(id) applied twice in a row, whatever the two
\* clock readings, gives back the original completed flag, again with id,
\* title, createdAt and every other task unchanged.
C14_ToggleTwice ==
  [][ Handled("toggleTask") =>
        \A id \in Ids :
          (\E now \in Times : tasks' = ToggleUpdater(tasks, id, now))
          => /\ ToggledBy(tasks, tasks', id, LAMBDA c : ~c)
             /\ \A again \in Times :
                  ToggledBy(tasks, ToggleUpdater(tasks', id, again), id,
                            LAMBDA c : c) ]_vars

\* C14 witness: after toggles the two stored tasks have the flags they were
\* loaded with (every single toggle of a stored task leaves other flags).
C14_Witness ==
  /\ lastIntent = [op |-> "toggleTask", arg |-> <<TRUE>>]
  /\ Len(tasks) = 2
  /\ tasks[1].id = <<"b">>
  /\ tasks[1].completed
  /\ tasks[2].id = <<"a">>
  /\ ~tasks[2].completed

\* The step rewrote no createdAt and dropped or added no task.
CreatedAtKept ==
  /\ DOMAIN tasks' = DOMAIN tasks
  /\ \A i \in DOMAIN tasks : tasks'[i].createdAt = tasks[i].createdAt

\* C15: every mutation of a task (toggleTask, commitEdit with a non-blank
\* title) sets its updatedAt to a value greater than or equal to the one it
\* had, so updatedAt never decreases and is always >= createdAt, and
\* createdAt never changes.  Stated as the claim states it; the new
\* updatedAt is what Date.now() returns, whatever the task held.
C15_UpdatedAtMonotone ==
  /\ [](\A i \in DOMAIN tasks : tasks[i].updatedAt >= tasks[i].createdAt)
  /\ [][ ( \/ Handled("toggleTask")
           \/ Handled("commitEdit") /\ lastIntent'.arg[2] = "retitle" )
         => ( /\ CreatedAtKept
              /\ \A i \in DOMAIN tasks :
                   tasks'[i].updatedAt >= tasks[i].updatedAt ) ]_vars

\* C15, the part the code keeps: toggleTask and commitEdit with a non-blank
\* title drop or add no task and rewrite no createdAt.
C15_CreatedAtNeverChanges ==
  [][ ( \/ Handled("toggleTask")
        \/ Handled("commitEdit") /\ lastIntent'.arg[2] = "retitle" )
      => CreatedAtKept ]_vars

\* The tasks of ts that are not completed, as they are and in their order.
RECURSIVE ActiveOf(_)
ActiveOf(ts) ==
  IF ts = <<>> THEN <<>>
  ELSE IF Head(ts).completed THEN ActiveOf(Tail(ts))
  ELSE <<Head(ts)>> \o ActiveOf(Tail(ts))

\* C16: after clearCompleted no task of the collection is completed, and
\* the collection is exactly the tasks that were active before, each with
\* all its fields unchanged, in the order they had.
C16_ClearCompleted ==
  [][ Handled("clearCompleted")
      => ( /\ \A i \in DOMAIN tasks' : ~tasks'[i].completed
           /\ tasks' = ActiveOf(tasks) ) ]_vars

\* C16 witness: Clear Completed found a completed task and left the one
\* active task of the collection, and the stored snapshot holds that task
\* alone.
C16_Witness ==
  /\ lastIntent = [op |-> "clearCompleted", arg |-> <<TRUE>>]
  /\ Mounted
  /\ Len(tasks) = 1
  /\ tasks[1].id = <<"a">>
  /\ ~tasks[1].completed
  /\ Len(storage.rows) = 1

\* Two characters that are the same letter, whatever their case.
SameLetter(c, d) ==
  c = d \/ {c, d} = {"a", "A"} \/ {c, d} = {"b", "B"}

\* The text q occurs in title as a contiguous piece, case ignored.
ContainsFolded(title, q) ==
  \E i \in 1..(Len(title) - Len(q) + 1) :
    \A k \in 1..Len(q) : SameLetter(title[i + k - 1], q[k])

\* The task t is shown under the filter f and the search text typed.
Shown(t, f, typed) ==
  /\ \/ f = "all"
     \/ f = "active" /\ ~t.completed
     \/ f = "completed" /\ t.completed
  /\ \/ Blank(typed)
     \/ \E i, j \in 0..Len(typed) :
          /\ i + j <= Len(typed)
          /\ TrimmedFrom(SubSeq(typed, i + 1, Len(typed) - j), typed)
          /\ ContainsFolded(t.title, SubSeq(typed, i + 1, Len(typed) - j))

\* The tasks of ts that are shown, in the order of ts.
RECURSIVE ViewOf(_, _, _)
ViewOf(ts, f, typed) ==
  IF ts = <<>> THEN <<>>
  ELSE IF Shown(Head(ts), f, typed)
    THEN <<Head(ts)>> \o ViewOf(Tail(ts), f, typed)
    ELSE ViewOf(Tail(ts), f, typed)

\* C17: for every collection, filter and query, the displayed view is
\* exactly the tasks of the collection, in its order, that pass the filter
\* (all: every task; active: not completed; completed: completed) and whose
\* title contains the trimmed query, case ignored (a blank query matches
\* every task); choosing a filter or typing a query changes neither the
\* collection nor the stored snapshot.
C17_FilteredView ==
  /\ [](filtered = ViewOf(tasks, filter, query))
  /\ [][ (Handled("setFilter") \/ Handled("setQuery"))
         => (tasks' = tasks /\ storage' = storage) ]_vars

\* C17 witness: under the Completed tab and the query " b", of two completed
\* tasks the one titled "B" is shown and the one titled "a" is not.
C17_Witness ==
  /\ filter = "completed"
  /\ query = <<" ", "b">>
  /\ Len(tasks) = 2
  /\ tasks[1].title = <<"a">>
  /\ tasks[1].completed
  /\ tasks[2].title = <<"B">>
  /\ tasks[2].completed
  /\ filtered = <<tasks[2]>>

\* The collection ts with the timestamps of its tasks set to c and u.
Stamped(ts, c, u) ==
  [i \in DOMAIN ts |-> [ts[i] EXCEPT !.createdAt = c, !.updatedAt = u]]

\* C18: a restart of a session whose writes succeeded starts with a
\* collection equal to the one before it (same ids, titles, completed flags,
\* createdAt and updatedAt, same order); and serializing as the effect does,
\* then loading as the startup read does, gives back that collection,
\* whatever timestamps its tasks carry.
C18_RoundTrip ==
  [][ (Handled("restart") /\ Mounted)
      => ( /\ tasks' = tasks
           /\ Initializer(JSONstringify(tasks)) = [js |-> "array", items |-> tasks]
           /\ \A c \in Times, u \in Times :
                Initializer(JSONstringify(Stamped(tasks, c, u)))
                  = [js |-> "array", items |-> Stamped(tasks, c, u)] ) ]_vars

\* C18 witness: a restart loaded two tasks, the first one added, retitled
\* and completed in the session before.
C18_Witness ==
  /\ lastIntent = [op |-> "restart", arg |-> <<"array">>]
  /\ Mounted
  /\ Len(tasks) = 2
  /\ tasks[1].id = <<"a">>
  /\ tasks[1].title = <<"B">>
  /\ tasks[1].completed
  /\ tasks[2].id = <<"b">>

\* C19: in every state, when the session is Editing(id) (editingId is not
\* none) a task with that id is in the collection: no intent leaves
\* editingId naming a task that is gone.  Stated as the claim states it;
\* clearCompleted filters the collection and leaves the edit session alone.
C19_EditingIdPresent ==
  editingId # Null => Has(tasks, editingId)

\* C19, the part the code keeps: every intent other than clearCompleted
\* that starts with the edited task present (or with no edit) ends that way.
C19_OthersKeepEditedTask ==
  [][ ( /\ editingId # Null => Has(tasks, editingId)
        /\ ~Handled("clearCompleted") )
      => (editingId' # Null => Has(tasks', editingId')) ]_vars

\* The intent handled last resolved the edit in progress: a cancel, a
\* commit that wrote a title or removed the task, or the removal of the task
\* under edit.
EditResolved ==
  \/ lastIntent.op = "cancelEdit"
  \/ lastIntent.op = "commitEdit" /\ lastIntent.arg[2] \in {"retitle", "remove"}
  \/ lastIntent.op = "removeTask" /\ lastIntent.arg[2] = "same"

====
